---- MODULE Spec2Model ----
(***************************************************************************)
(* RGB24 <-> planar YUV 4:2:0 conversion (yuv_rgb.c): the fixed-point      *)
(* parameter tables, rgb24_yuv420_std and yuv420_rgb24_std.                *)
(*                                                                         *)
(* Planes are functions from byte offsets to bytes; the pointers of the C  *)
(* code are byte offsets into their plane.  Each loop test and each 2x2    *)
(* block body is one step.  Two calls that run concurrently share the      *)
(* planes; the steps of the two interleave in any order.                   *)
(***************************************************************************)
EXTENDS Integers, Naturals, Sequences, FiniteSets, TLC

VARIABLES
    func,          \* which function was called
    yuv_type,      \* YCbCrType argument (index into the parameter tables)
    width, height, \* uint32_t arguments
    RGB_stride, Y_stride, UV_stride,
    RGB, Y, U, V,  \* the four planes: offset -> byte
    x, y,          \* loop counters (uint32_t)
    rgb_ptr1, rgb_ptr2, y_ptr1, y_ptr2, u_ptr, v_ptr,
    pc,            \* "outer", "inner", "done", "ub"
    iters,         \* number of 2x2 block bodies executed so far
    reads, writes, \* bytes accessed so far: sets of <<plane, offset>>
    RGB_in, Y_in, U_in, V_in,  \* the planes as they were at the call
    base,          \* the plane pointer arguments, as byte offsets into the
                   \* caller's buffers: [RGB, Y, U, V |-> offset]
    other          \* the arguments and locals of a second, concurrent call
                   \* while it is not the one taking a step (pc "none": no
                   \* such call)

vars == <<func, yuv_type, width, height, RGB_stride, Y_stride, UV_stride,
          RGB, Y, U, V, x, y, rgb_ptr1, rgb_ptr2, y_ptr1, y_ptr2, u_ptr, v_ptr,
          pc, iters, reads, writes, RGB_in, Y_in, U_in, V_in, base, other>>

----------------------------------------------------------------------------
(* C integer types.  Arithmetic is done in int (32 bits, never overflowing  *)
(* for the operand ranges here); a store to a narrower type reduces modulo  *)
(* 2^w.  >> on a negative int is the arithmetic shift (floor).              *)

Pow2(n) == IF n = 0 THEN 1 ELSE IF n = 1 THEN 2 ELSE IF n = 2 THEN 4
           ELSE IF n = 6 THEN 64 ELSE IF n = 7 THEN 128 ELSE IF n = 8 THEN 256
           ELSE IF n = 15 THEN 32768 ELSE IF n = 16 THEN 65536 ELSE 0

Shr(v, n) == v \div Pow2(n)

ToUint8(v) == v % 256

ToUint16(v) == v % 65536

ToInt8(v) == ((v + 128) % 256) - 128

ToInt16(v) == ((v + 32768) % 65536) - 32768

Byte == 0..255

----------------------------------------------------------------------------
(* uint32_t values that may not fit a TLC integer (height-1 when height is  *)
(* 0) are kept as two 16-bit limbs <<hi, lo>>.                              *)

U32(n) == <<n \div 65536, n % 65536>>

U32Sub(a, b) ==
    LET lo == a[2] - b[2]
        borrow == IF lo < 0 THEN 1 ELSE 0
    IN  <<(a[1] - b[1] - borrow) % 65536, lo % 65536>>

U32Lt(a, b) == a[1] < b[1] \/ (a[1] = b[1] /\ a[2] < b[2])

\* Mutant: the loop runs to n instead of n-1.
LoopCond_NoMinusOne(i, n) == U32Lt(U32(i), U32(n))

\* x < (n-1) with both sides uint32_t, as in the two loop conditions
LoopCond(i, n) == U32Lt(U32(i), U32Sub(U32(n), U32(1)))

----------------------------------------------------------------------------
(* The double arithmetic of the parameter macros, on exact rationals        *)
(* <<numerator, denominator>>.  None of the scaled values is within 1e-3 of *)
(* a half-integer, so the rounding of double does not change a result.      *)

RECURSIVE GCD(_, _)
GCD(a, b) == IF b = 0 THEN a ELSE GCD(b, a % b)

Abs(a) == IF a < 0 THEN -a ELSE a

Rat(n, d) == LET g == GCD(Abs(n), d) IN <<n \div g, d \div g>>

RMul(a, b) ==
    LET g1 == GCD(Abs(a[1]), b[2])
        g2 == GCD(Abs(b[1]), a[2])
    IN  Rat((a[1] \div g1) * (b[1] \div g2), (a[2] \div g2) * (b[2] \div g1))

RDiv(a, b) == RMul(a, <<b[2], b[1]>>)

RAdd(a, b) ==
    LET g == GCD(a[2], b[2])
    IN  Rat(a[1] * (b[2] \div g) + b[1] * (a[2] \div g), (a[2] \div g) * b[2])

RSub(a, b) == RAdd(a, <<-b[1], b[2]>>)

\* (int)v for a double v: truncation toward zero
IntOf(v) == IF v[1] >= 0 THEN v[1] \div v[2] ELSE -((-v[1]) \div v[2])

\* Mutant: rounds up instead of to nearest.
FIXED_POINT_VALUE_RoundUp(value, precision) ==
    IntOf(RAdd(RMul(value, <<Pow2(precision), 1>>), <<1, 1>>))

\* Mutant: truncates instead of rounding to nearest.
FIXED_POINT_VALUE_Trunc(value, precision) ==
    IntOf(RMul(value, <<Pow2(precision), 1>>))

FIXED_POINT_VALUE(value, precision) ==
    IntOf(RAdd(RMul(value, <<Pow2(precision), 1>>), <<1, 2>>))

One == <<1, 1>>

Two == <<2, 1>>

R255 == <<255, 1>>

\* Mutant: g_factor rounded on its own from Gf = 1-Rf-Bf.
RGB2YUV_PARAM_RoundG(Rf, Bf, YMin, YMax, CbCrRange) ==
    [r_factor  |-> ToUint8(FIXED_POINT_VALUE(Rf, 8)),
     g_factor  |-> ToUint8(FIXED_POINT_VALUE(RSub(RSub(One, Rf), Bf), 8)),
     b_factor  |-> ToUint8(FIXED_POINT_VALUE(Bf, 8)),
     cb_factor |-> ToUint8(FIXED_POINT_VALUE(
                       RDiv(RDiv(CbCrRange, R255), RMul(Two, RSub(One, Bf))), 8)),
     cr_factor |-> ToUint8(FIXED_POINT_VALUE(
                       RDiv(RDiv(CbCrRange, R255), RMul(Two, RSub(One, Rf))), 8)),
     y_factor  |-> ToUint8(FIXED_POINT_VALUE(RDiv(RSub(YMax, YMin), R255), 7)),
     y_offset  |-> ToUint8(IntOf(YMin))]

\* Mutant: the two chroma normalisations are exchanged.
RGB2YUV_PARAM_SwapChroma(Rf, Bf, YMin, YMax, CbCrRange) ==
    [r_factor  |-> ToUint8(FIXED_POINT_VALUE(Rf, 8)),
     g_factor  |-> ToUint8(256 - FIXED_POINT_VALUE(Rf, 8) - FIXED_POINT_VALUE(Bf, 8)),
     b_factor  |-> ToUint8(FIXED_POINT_VALUE(Bf, 8)),
     cb_factor |-> ToUint8(FIXED_POINT_VALUE(
                       RDiv(RDiv(CbCrRange, R255), RMul(Two, RSub(One, Rf))), 8)),
     cr_factor |-> ToUint8(FIXED_POINT_VALUE(
                       RDiv(RDiv(CbCrRange, R255), RMul(Two, RSub(One, Bf))), 8)),
     y_factor  |-> ToUint8(FIXED_POINT_VALUE(RDiv(RSub(YMax, YMin), R255), 7)),
     y_offset  |-> ToUint8(IntOf(YMin))]

RGB2YUV_PARAM(Rf, Bf, YMin, YMax, CbCrRange) ==
    [r_factor  |-> ToUint8(FIXED_POINT_VALUE(Rf, 8)),
     g_factor  |-> ToUint8(256 - FIXED_POINT_VALUE(Rf, 8) - FIXED_POINT_VALUE(Bf, 8)),
     b_factor  |-> ToUint8(FIXED_POINT_VALUE(Bf, 8)),
     cb_factor |-> ToUint8(FIXED_POINT_VALUE(
                       RDiv(RDiv(CbCrRange, R255), RMul(Two, RSub(One, Bf))), 8)),
     cr_factor |-> ToUint8(FIXED_POINT_VALUE(
                       RDiv(RDiv(CbCrRange, R255), RMul(Two, RSub(One, Rf))), 8)),
     y_factor  |-> ToUint8(FIXED_POINT_VALUE(RDiv(RSub(YMax, YMin), R255), 7)),
     y_offset  |-> ToUint8(IntOf(YMin))]

\* Mutant: y_factor is scaled by 2^6, like cb_factor and cr_factor.
YUV2RGB_PARAM_LumaPrecision6(Rf, Bf, YMin, YMax, CbCrRange) ==
    [cb_factor   |-> ToUint8(FIXED_POINT_VALUE(
                       RDiv(RMul(R255, RMul(Two, RSub(One, Bf))), CbCrRange), 6)),
     cr_factor   |-> ToUint8(FIXED_POINT_VALUE(
                       RDiv(RMul(R255, RMul(Two, RSub(One, Rf))), CbCrRange), 6)),
     g_cb_factor |-> ToUint8(FIXED_POINT_VALUE(
                       RDiv(RMul(RMul(RDiv(Bf, RSub(RSub(One, Bf), Rf)), R255),
                                 RMul(Two, RSub(One, Bf))), CbCrRange), 7)),
     g_cr_factor |-> ToUint8(FIXED_POINT_VALUE(
                       RDiv(RMul(RMul(RDiv(Rf, RSub(RSub(One, Bf), Rf)), R255),
                                 RMul(Two, RSub(One, Rf))), CbCrRange), 7)),
     y_factor    |-> ToUint8(FIXED_POINT_VALUE(RDiv(R255, RSub(YMax, YMin)), 6)),
     y_offset    |-> ToUint8(IntOf(YMin))]

YUV2RGB_PARAM(Rf, Bf, YMin, YMax, CbCrRange) ==
    [cb_factor   |-> ToUint8(FIXED_POINT_VALUE(
                       RDiv(RMul(R255, RMul(Two, RSub(One, Bf))), CbCrRange), 6)),
     cr_factor   |-> ToUint8(FIXED_POINT_VALUE(
                       RDiv(RMul(R255, RMul(Two, RSub(One, Rf))), CbCrRange), 6)),
     g_cb_factor |-> ToUint8(FIXED_POINT_VALUE(
                       RDiv(RMul(RMul(RDiv(Bf, RSub(RSub(One, Bf), Rf)), R255),
                                 RMul(Two, RSub(One, Bf))), CbCrRange), 7)),
     g_cr_factor |-> ToUint8(FIXED_POINT_VALUE(
                       RDiv(RMul(RMul(RDiv(Rf, RSub(RSub(One, Bf), Rf)), R255),
                                 RMul(Two, RSub(One, Rf))), CbCrRange), 7)),
     y_factor    |-> ToUint8(FIXED_POINT_VALUE(RDiv(R255, RSub(YMax, YMin)), 7)),
     y_offset    |-> ToUint8(IntOf(YMin))]

\* The arguments of the table initialisers: index 0 is ITU-T T.871 (JPEG),
\* 1 is ITU-R BT.601-7, 2 is ITU-R BT.709-6.
StdConst ==
    [t \in 0..2 |->
        IF t = 0 THEN [Rf |-> Rat(299, 1000), Bf |-> Rat(114, 1000),
                       YMin |-> Rat(0, 1), YMax |-> Rat(255, 1), CbCrRange |-> Rat(255, 1)]
        ELSE IF t = 1 THEN [Rf |-> Rat(299, 1000), Bf |-> Rat(114, 1000),
                       YMin |-> Rat(16, 1), YMax |-> Rat(235, 1), CbCrRange |-> Rat(224, 1)]
        ELSE [Rf |-> Rat(2126, 10000), Bf |-> Rat(722, 10000),
                       YMin |-> Rat(16, 1), YMax |-> Rat(235, 1), CbCrRange |-> Rat(224, 1)]]

RGB2YUV ==
    [t \in 0..2 |-> RGB2YUV_PARAM(StdConst[t].Rf, StdConst[t].Bf, StdConst[t].YMin,
                                  StdConst[t].YMax, StdConst[t].CbCrRange)]

YUV2RGB ==
    [t \in 0..2 |-> YUV2RGB_PARAM(StdConst[t].Rf, StdConst[t].Bf, StdConst[t].YMin,
                                  StdConst[t].YMax, StdConst[t].CbCrRange)]

----------------------------------------------------------------------------
(* Bounds of the model.                                                     *)

\* width and height range over 0..MaxDim
MaxDim == 4

\* each stride exceeds its minimum by 0..MaxPad samples
MaxPad == 2

\* channel values of the value-level inputs: NLevels+1 evenly spread levels
NLevels == 2

\* Caps on the loops, reached only when width or height is 0 (the loop
\* bound wraps to 2^32-1); every image with width, height >= 1 finishes
\* below them.
IterCap == (MaxDim \div 2 + 1) * (MaxDim \div 2 + 1)

YCap == MaxDim + 2

CeilHalf(n) == (n + 1) \div 2

----------------------------------------------------------------------------
(* Memory.                                                                  *)

InPlane(plane, offs) == \A o \in offs : o \in DOMAIN plane

\* plane with the bytes of upd (offset -> byte) stored
Store(plane, upd) ==
    [o \in DOMAIN plane |-> IF o \in DOMAIN upd THEN upd[o] ELSE plane[o]]

Tag(name, offs) == {<<name, o>> : o \in offs}

----------------------------------------------------------------------------
(* rgb24_yuv420_std: the body of the inner loop.                            *)

\* (r_factor*R + g_factor*G + b_factor*B)>>8, before the store to y_tmp
PseudoLuma(param, px) ==
    Shr(param.r_factor * px[1] + param.g_factor * px[2] + param.b_factor * px[3], 8)

\* (((c - y_tmp)*factor)>>8) + 128, before it is added into u_tmp / v_tmp
PixelChroma(c, y_tmp, factor) == Shr((c - y_tmp) * factor, 8) + 128

\* Mutant: the luma offset is left out.
ScaleLuma_NoOffset(param, y_tmp) == Shr(y_tmp * param.y_factor, 7)

\* ((y_tmp*y_factor)>>7) + y_offset, before the store to the Y plane
ScaleLuma(param, y_tmp) == Shr(y_tmp * param.y_factor, 7) + param.y_offset

\* Mutant: the average is rounded to nearest.
BlockChroma_Rounded(acc) == Shr(acc + 2, 2)

\* u_tmp>>2 and v_tmp>>2, before the store to the U / V plane
BlockChroma(acc) == Shr(acc, 2)

\* px: the four pixels <<R,G,B>> in the order the code visits them
\* (rgb_ptr1[0..2], rgb_ptr1[3..5], rgb_ptr2[0..2], rgb_ptr2[3..5]).
\* The result holds the bytes stored to y_ptr1[0], y_ptr1[1], y_ptr2[0],
\* y_ptr2[1], u_ptr[0] and v_ptr[0].
RGB2YUV_Block(param, px) ==
    LET y_tmp == [i \in 1..4 |-> ToUint8(PseudoLuma(param, px[i]))]
        u_add(acc, i) == ToUint16(acc + PixelChroma(px[i][3], y_tmp[i], param.cb_factor))
        v_add(acc, i) == ToUint16(acc + PixelChroma(px[i][1], y_tmp[i], param.cr_factor))
        u_tmp == u_add(u_add(u_add(
                     ToUint16(PixelChroma(px[1][3], y_tmp[1], param.cb_factor)), 2), 3), 4)
        v_tmp == v_add(v_add(v_add(
                     ToUint16(PixelChroma(px[1][1], y_tmp[1], param.cr_factor)), 2), 3), 4)
    IN  [y |-> [i \in 1..4 |-> ToUint8(ScaleLuma(param, y_tmp[i]))],
         u |-> ToUint8(BlockChroma(u_tmp)),
         v |-> ToUint8(BlockChroma(v_tmp))]

----------------------------------------------------------------------------
(* yuv420_rgb24_std: the body of the inner loop.                            *)

\* Mutant: the upper bound is not clipped.
clamp_NoUpper(value) ==
    LET v == ToInt16(value)
    IN  ToUint8(IF v < 0 THEN 0 ELSE v)

clamp(value) ==
    LET v == ToInt16(value)     \* the parameter is an int16_t
    IN  ToUint8(IF v < 0 THEN 0 ELSE IF v > 255 THEN 255 ELSE v)

\* ys: the four luma bytes y_ptr1[0], y_ptr1[1], y_ptr2[0], y_ptr2[1];
\* uc, vc: u_ptr[0], v_ptr[0].  The result holds, per pixel, the bytes
\* <<R,G,B>> stored to rgb_ptr1[0..2], rgb_ptr1[3..5], rgb_ptr2[0..2],
\* rgb_ptr2[3..5].
YUV2RGB_Block(param, ys, uc, vc) ==
    LET u_tmp == ToInt8(uc - 128)
        v_tmp == ToInt8(vc - 128)
        b_cb_offset == ToInt16(Shr(param.cb_factor * u_tmp, 6))
        r_cr_offset == ToInt16(Shr(param.cr_factor * v_tmp, 6))
        g_cbcr_offset ==
            ToInt16(Shr(param.g_cb_factor * u_tmp + param.g_cr_factor * v_tmp, 7))
        y_tmp == [i \in 1..4 |-> ToInt16(Shr(param.y_factor * (ys[i] - param.y_offset), 7))]
    IN  [i \in 1..4 |-> <<clamp(y_tmp[i] + r_cr_offset),
                          clamp(y_tmp[i] - g_cbcr_offset),
                          clamp(y_tmp[i] + b_cb_offset)>>]

----------------------------------------------------------------------------
(* The two loops.  Both functions share the loop skeleton                   *)
(*   for(y=0; y<(height-1); y+=2) { pointers; for(x=0; x<(width-1); x+=2) } *)

args == <<func, yuv_type, width, height, RGB_stride, Y_stride, UV_stride, base>>

snapshot == <<RGB_in, Y_in, U_in, V_in>>

ptrs == <<rgb_ptr1, rgb_ptr2, y_ptr1, y_ptr2, u_ptr, v_ptr>>

planes == <<RGB, Y, U, V>>

\* Mutant: the chroma row is y instead of y/2.
RowEnter_NoHalf(f) ==
    /\ pc = "outer" /\ func = f
    /\ LoopCond(y, height)
    /\ y < YCap
    /\ rgb_ptr1' = base.RGB + y * RGB_stride
    /\ rgb_ptr2' = base.RGB + (y + 1) * RGB_stride
    /\ y_ptr1' = base.Y + y * Y_stride
    /\ y_ptr2' = base.Y + (y + 1) * Y_stride
    /\ u_ptr' = base.U + y * UV_stride
    /\ v_ptr' = base.V + y * UV_stride
    /\ x' = 0
    /\ pc' = "inner"
    /\ UNCHANGED <<args, other, planes, y, iters, reads, writes, snapshot>>

\* outer loop condition true: the row pointers are set and x = 0
RowEnter(f) ==
    /\ pc = "outer" /\ func = f
    /\ LoopCond(y, height)
    /\ y < YCap
    /\ rgb_ptr1' = base.RGB + y * RGB_stride
    /\ rgb_ptr2' = base.RGB + (y + 1) * RGB_stride
    /\ y_ptr1' = base.Y + y * Y_stride
    /\ y_ptr2' = base.Y + (y + 1) * Y_stride
    /\ u_ptr' = base.U + (y \div 2) * UV_stride
    /\ v_ptr' = base.V + (y \div 2) * UV_stride
    /\ x' = 0
    /\ pc' = "inner"
    /\ UNCHANGED <<args, other, planes, y, iters, reads, writes, snapshot>>

\* outer loop condition false: the function returns
Return(f) ==
    /\ pc = "outer" /\ func = f
    /\ ~LoopCond(y, height)
    /\ pc' = "done"
    /\ UNCHANGED <<args, other, planes, x, y, ptrs, iters, reads, writes, snapshot>>

\* inner loop condition false: y += 2
RowEnd(f) ==
    /\ pc = "inner" /\ func = f
    /\ ~LoopCond(x, width)
    /\ y' = y + 2
    /\ pc' = "outer"
    /\ UNCHANGED <<args, other, planes, x, ptrs, iters, reads, writes, snapshot>>

\* Mutant: the second row pointer advances by one pixel only.
Advance_OnePixel ==
    /\ rgb_ptr1' = rgb_ptr1 + 6
    /\ rgb_ptr2' = rgb_ptr2 + 3
    /\ y_ptr1' = y_ptr1 + 2
    /\ y_ptr2' = y_ptr2 + 2
    /\ u_ptr' = u_ptr + 1
    /\ v_ptr' = v_ptr + 1
    /\ x' = x + 2

\* the pointer increments and x += 2 that end a block body
Advance ==
    /\ rgb_ptr1' = rgb_ptr1 + 6
    /\ rgb_ptr2' = rgb_ptr2 + 6
    /\ y_ptr1' = y_ptr1 + 2
    /\ y_ptr2' = y_ptr2 + 2
    /\ u_ptr' = u_ptr + 1
    /\ v_ptr' = v_ptr + 1
    /\ x' = x + 2

\* offsets a block body touches in each plane
RgbOffs == (rgb_ptr1 .. rgb_ptr1 + 5) \cup (rgb_ptr2 .. rgb_ptr2 + 5)

YOffs == {y_ptr1, y_ptr1 + 1, y_ptr2, y_ptr2 + 1}

BlockInBounds ==
    /\ InPlane(RGB, RgbOffs)
    /\ InPlane(Y, YOffs)
    /\ InPlane(U, {u_ptr})
    /\ InPlane(V, {v_ptr})

BlockEnabled(f) ==
    /\ pc = "inner" /\ func = f
    /\ LoopCond(x, width)
    /\ iters < IterCap

Pixel(plane, ptr) == <<plane[ptr], plane[ptr + 1], plane[ptr + 2]>>

rgb24_yuv420_std_block ==
    /\ BlockEnabled("rgb24_yuv420_std")
    /\ BlockInBounds
    /\ LET out == RGB2YUV_Block(RGB2YUV[yuv_type],
                      <<Pixel(RGB, rgb_ptr1), Pixel(RGB, rgb_ptr1 + 3),
                        Pixel(RGB, rgb_ptr2), Pixel(RGB, rgb_ptr2 + 3)>>)
       IN  /\ Y' = Store(Y, (y_ptr1 :> out.y[1]) @@ ((y_ptr1 + 1) :> out.y[2]) @@
                            (y_ptr2 :> out.y[3]) @@ ((y_ptr2 + 1) :> out.y[4]))
           /\ U' = Store(U, u_ptr :> out.u)
           /\ V' = Store(V, v_ptr :> out.v)
    /\ reads' = reads \cup Tag("RGB", RgbOffs)
    /\ writes' = writes \cup Tag("Y", YOffs) \cup Tag("U", {u_ptr}) \cup Tag("V", {v_ptr})
    /\ Advance
    /\ iters' = iters + 1
    /\ UNCHANGED <<args, other, RGB, y, pc, snapshot>>

\* a block body that touches a byte outside a plane: undefined behaviour.
\* "ub" stands for every outcome; nothing is assumed of the state after it.
rgb24_yuv420_std_block_ub ==
    /\ BlockEnabled("rgb24_yuv420_std")
    /\ ~BlockInBounds
    /\ reads' = reads \cup Tag("RGB", RgbOffs)
    /\ writes' = writes \cup Tag("Y", YOffs) \cup Tag("U", {u_ptr}) \cup Tag("V", {v_ptr})
    /\ iters' = iters + 1
    /\ pc' = "ub"
    /\ UNCHANGED <<args, other, planes, x, y, ptrs, snapshot>>

yuv420_rgb24_std_block ==
    /\ BlockEnabled("yuv420_rgb24_std")
    /\ BlockInBounds
    /\ LET out == YUV2RGB_Block(YUV2RGB[yuv_type],
                      <<Y[y_ptr1], Y[y_ptr1 + 1], Y[y_ptr2], Y[y_ptr2 + 1]>>,
                      U[u_ptr], V[v_ptr])
           put(ptr, px) == (ptr :> px[1]) @@ ((ptr + 1) :> px[2]) @@ ((ptr + 2) :> px[3])
       IN  RGB' = Store(RGB, put(rgb_ptr1, out[1]) @@ put(rgb_ptr1 + 3, out[2]) @@
                             put(rgb_ptr2, out[3]) @@ put(rgb_ptr2 + 3, out[4]))
    /\ reads' = reads \cup Tag("Y", YOffs) \cup Tag("U", {u_ptr}) \cup Tag("V", {v_ptr})
    /\ writes' = writes \cup Tag("RGB", RgbOffs)
    /\ Advance
    /\ iters' = iters + 1
    /\ UNCHANGED <<args, other, Y, U, V, y, pc, snapshot>>

yuv420_rgb24_std_block_ub ==
    /\ BlockEnabled("yuv420_rgb24_std")
    /\ ~BlockInBounds
    /\ reads' = reads \cup Tag("Y", YOffs) \cup Tag("U", {u_ptr}) \cup Tag("V", {v_ptr})
    /\ writes' = writes \cup Tag("RGB", RgbOffs)
    /\ iters' = iters + 1
    /\ pc' = "ub"
    /\ UNCHANGED <<args, other, planes, x, y, ptrs, snapshot>>

rgb24_yuv420_std_row == RowEnter("rgb24_yuv420_std")

rgb24_yuv420_std_rowend == RowEnd("rgb24_yuv420_std")

rgb24_yuv420_std_return == Return("rgb24_yuv420_std")

yuv420_rgb24_std_row == RowEnter("yuv420_rgb24_std")

yuv420_rgb24_std_rowend == RowEnd("yuv420_rgb24_std")

yuv420_rgb24_std_return == Return("yuv420_rgb24_std")

----------------------------------------------------------------------------
(* Calls.                                                                   *)

\* contents of a plane of `size` bytes at the call: a fixed non-uniform pattern
FillRGB(size) == [o \in 0..(size - 1) |-> (o * 37 + 11) % 256]

FillY(size) == [o \in 0..(size - 1) |-> (o * 53 + 5) % 256]

FillU(size) == [o \in 0..(size - 1) |-> (o * 29 + 101) % 256]

FillV(size) == [o \in 0..(size - 1) |-> (o * 71 + 190) % 256]

\* the plane pointers of a call that is given the start of each buffer
WholeBuffers == [RGB |-> 0, Y |-> 0, U |-> 0, V |-> 0]

\* `other` when the call runs alone
NoCall ==
    [height |-> 0, base |-> WholeBuffers, x |-> 0, y |-> 0,
     rgb_ptr1 |-> 0, rgb_ptr2 |-> 0, y_ptr1 |-> 0, y_ptr2 |-> 0, u_ptr |-> 0, v_ptr |-> 0,
     pc |-> "none", iters |-> 0, reads |-> {}, writes |-> {}]

\* the state at the entry of f, after y = 0
Call(f, t, w, h, rs, ys, uvs, rgb, yp, up, vp) ==
    /\ func = f /\ yuv_type = t
    /\ width = w /\ height = h
    /\ RGB_stride = rs /\ Y_stride = ys /\ UV_stride = uvs
    /\ RGB = rgb /\ Y = yp /\ U = up /\ V = vp
    /\ RGB_in = rgb /\ Y_in = yp /\ U_in = up /\ V_in = vp
    /\ x = 0 /\ y = 0
    /\ rgb_ptr1 = 0 /\ rgb_ptr2 = 0 /\ y_ptr1 = 0 /\ y_ptr2 = 0
    /\ u_ptr = 0 /\ v_ptr = 0
    /\ pc = "outer"
    /\ iters = 0
    /\ reads = {} /\ writes = {}
    /\ base = WholeBuffers
    /\ other = NoCall

\* Every call with width, height in 0..MaxDim and every stride between its
\* minimum and its minimum plus MaxPad samples; the planes hold `height`
\* (RGB, Y) and ceil(height/2) (U, V) rows.
Init ==
    \E f \in {"rgb24_yuv420_std", "yuv420_rgb24_std"}, t \in 0..2,
       w \in 0..MaxDim, h \in 0..MaxDim :
    \E rs \in (3 * w)..(3 * (w + MaxPad)), ys \in w..(w + MaxPad),
       uvs \in CeilHalf(w)..(CeilHalf(w) + MaxPad) :
        Call(f, t, w, h, rs, ys, uvs,
             FillRGB(h * rs), FillY(h * ys),
             FillU(CeilHalf(h) * uvs), FillV(CeilHalf(h) * uvs))

Next ==
    \/ rgb24_yuv420_std_row
    \/ rgb24_yuv420_std_block
    \/ rgb24_yuv420_std_block_ub
    \/ rgb24_yuv420_std_rowend
    \/ rgb24_yuv420_std_return
    \/ yuv420_rgb24_std_row
    \/ yuv420_rgb24_std_block
    \/ yuv420_rgb24_std_block_ub
    \/ yuv420_rgb24_std_rowend
    \/ yuv420_rgb24_std_return

Spec == Init /\ [][Next]_vars

----------------------------------------------------------------------------
(* Value-level inputs: one 2x2 block (width = height = 2, tight strides)    *)
(* whose samples range over the sets below.                                 *)

Levels == {(i * 255) \div NLevels : i \in 0..NLevels}

Colours == Levels \X Levels \X Levels

\* the four pixels equal, gray, every level 0..255
GrayBlocks == {[i \in 1..4 |-> <<v, v, v>>] : v \in Byte}

\* the four pixels equal, on an edge of the RGB cube: one channel takes
\* every value 0..255, the two others are 0 or 255
EdgeBlocks ==
    {[i \in 1..4 |-> c] :
        c \in UNION {{<<v, a, b>>, <<a, v, b>>, <<a, b, v>>} :
                        v \in Byte, a \in {0, 255}, b \in {0, 255}}}

\* three pixels of colour a and one, at position k, of colour b
OddOneBlocks == {[i \in 1..4 |-> IF i = k THEN b ELSE a] :
                    a \in Colours, b \in Colours, k \in 1..4}

\* four pixels that differ from each other
MixedBlocks ==
    {<<c, <<c[2], c[3], c[1]>>, <<c[3], c[1], c[2]>>,
       <<255 - c[1], 255 - c[2], 255 - c[3]>>>> : c \in Colours}

RGBBlocks == GrayBlocks \cup EdgeBlocks \cup OddOneBlocks \cup MixedBlocks

\* the RGB plane of a 2x2 image with stride 6 holding the block
BlockRGB(b) == [o \in 0..11 |-> b[(o \div 3) + 1][(o % 3) + 1]]

InitFwd ==
    \E t \in 0..2, b \in RGBBlocks :
        Call("rgb24_yuv420_std", t, 2, 2, 6, 2, 1,
             BlockRGB(b),
             FillY(4), FillU(1), FillV(1))

NextFwd ==
    \/ rgb24_yuv420_std_row
    \/ rgb24_yuv420_std_block
    \/ rgb24_yuv420_std_rowend
    \/ rgb24_yuv420_std_return

SpecFwd == InitFwd /\ [][NextFwd]_vars

YUVLevels == Levels \cup {128}

\* <<ys, u, v>>: three luma samples a and one b, chroma on the levels
OddOneYUV ==
    {<<[i \in 1..4 |-> IF i = k THEN b ELSE a], uc, vc>> :
        a \in YUVLevels, b \in YUVLevels, k \in 1..4, uc \in YUVLevels, vc \in YUVLevels}

\* one of Y, U, V takes every value 0..255, the two others are on the levels
AxisYUV ==
    UNION {{<<[i \in 1..4 |-> n], a, b>>, <<[i \in 1..4 |-> a], n, b>>,
            <<[i \in 1..4 |-> a], b, n>>} :
              n \in Byte, a \in YUVLevels, b \in YUVLevels}

YUVBlocks == OddOneYUV \cup AxisYUV

InitInv ==
    \E t \in 0..2, b \in YUVBlocks :
        Call("yuv420_rgb24_std", t, 2, 2, 6, 2, 1,
             FillRGB(12),
             [o \in 0..3 |-> b[1][o + 1]], [o \in 0..0 |-> b[2]], [o \in 0..0 |-> b[3]])

NextInv ==
    \/ yuv420_rgb24_std_row
    \/ yuv420_rgb24_std_block
    \/ yuv420_rgb24_std_rowend
    \/ yuv420_rgb24_std_return

SpecInv == InitInv /\ [][NextInv]_vars

----------------------------------------------------------------------------
(* Round trip: rgb24_yuv420_std on one 2x2 block, then yuv420_rgb24_std on  *)
(* the Y, U and V bytes it produced, writing back into the RGB buffer.      *)

\* the entry of yuv420_rgb24_std, called on the planes as the forward call
\* left them
yuv420_rgb24_std_call ==
    /\ pc = "done" /\ func = "rgb24_yuv420_std"
    /\ func' = "yuv420_rgb24_std"
    /\ RGB_in' = RGB /\ Y_in' = Y /\ U_in' = U /\ V_in' = V
    /\ x' = 0 /\ y' = 0
    /\ rgb_ptr1' = 0 /\ rgb_ptr2' = 0 /\ y_ptr1' = 0 /\ y_ptr2' = 0
    /\ u_ptr' = 0 /\ v_ptr' = 0
    /\ pc' = "outer"
    /\ iters' = 0
    /\ reads' = {} /\ writes' = {}
    /\ UNCHANGED <<yuv_type, width, height, RGB_stride, Y_stride, UV_stride, planes, base, other>>

InitRound ==
    \E t \in 0..2, b \in GrayBlocks \cup EdgeBlocks \cup MixedBlocks :
        Call("rgb24_yuv420_std", t, 2, 2, 6, 2, 1,
             BlockRGB(b),
             FillY(4), FillU(1), FillV(1))

NextRound ==
    \/ rgb24_yuv420_std_row
    \/ rgb24_yuv420_std_block
    \/ rgb24_yuv420_std_rowend
    \/ rgb24_yuv420_std_return
    \/ yuv420_rgb24_std_call
    \/ yuv420_rgb24_std_row
    \/ yuv420_rgb24_std_block
    \/ yuv420_rgb24_std_rowend
    \/ yuv420_rgb24_std_return

SpecRound == InitRound /\ [][NextRound]_vars

----------------------------------------------------------------------------
(* Two concurrent calls of one conversion on the row ranges [0,k) and      *)
(* [k,H) of one image.  Neither function takes a lock or waits, so a step  *)
(* of either call may follow any step of the other.  One call is held in   *)
(* the variables of the loop skeleton, the second in `other`; Switch       *)
(* exchanges them, so that the steps above serve both calls.               *)

\* what differs between the two calls: height, the plane pointers and the
\* locals (rgb_ptr1.. and x, y live on each caller's stack)
Context ==
    [height |-> height, base |-> base, x |-> x, y |-> y,
     rgb_ptr1 |-> rgb_ptr1, rgb_ptr2 |-> rgb_ptr2, y_ptr1 |-> y_ptr1, y_ptr2 |-> y_ptr2,
     u_ptr |-> u_ptr, v_ptr |-> v_ptr,
     pc |-> pc, iters |-> iters, reads |-> reads, writes |-> writes]

\* Mutant: x is one variable shared by the two calls, not a local of each.
Switch_SharedX ==
    /\ other.pc # "none"
    /\ other' = Context
    /\ height' = other.height /\ base' = other.base
    /\ x' = x /\ y' = other.y
    /\ rgb_ptr1' = other.rgb_ptr1 /\ rgb_ptr2' = other.rgb_ptr2
    /\ y_ptr1' = other.y_ptr1 /\ y_ptr2' = other.y_ptr2
    /\ u_ptr' = other.u_ptr /\ v_ptr' = other.v_ptr
    /\ pc' = other.pc /\ iters' = other.iters
    /\ reads' = other.reads /\ writes' = other.writes
    /\ UNCHANGED <<func, yuv_type, width, RGB_stride, Y_stride, UV_stride, planes, snapshot>>

\* the next step is taken by the other call
Switch ==
    /\ other.pc # "none"
    /\ other' = Context
    /\ height' = other.height /\ base' = other.base
    /\ x' = other.x /\ y' = other.y
    /\ rgb_ptr1' = other.rgb_ptr1 /\ rgb_ptr2' = other.rgb_ptr2
    /\ y_ptr1' = other.y_ptr1 /\ y_ptr2' = other.y_ptr2
    /\ u_ptr' = other.u_ptr /\ v_ptr' = other.v_ptr
    /\ pc' = other.pc /\ iters' = other.iters
    /\ reads' = other.reads /\ writes' = other.writes
    /\ UNCHANGED <<func, yuv_type, width, RGB_stride, Y_stride, UV_stride, planes, snapshot>>

\* the heights of the images converted by two calls
SplitHeights == {h \in 4..(MaxDim + 2) : h % 2 = 0}

\* An image of even height h, width 2..MaxDim and strides padded by p
\* samples, converted either by one call (k = 0) or by a call on the rows
\* [0,k) and a call on the rows [k,h), k even, whose plane pointers are
\* advanced by k rows (k/2 rows of U and V).
InitPar ==
    \E f \in {"rgb24_yuv420_std", "yuv420_rgb24_std"}, t \in 0..2,
       w \in 2..MaxDim, h \in SplitHeights, p \in 0..MaxPad :
    \E k \in {j \in 0..(h - 2) : j % 2 = 0} :
        LET rs == 3 * (w + p)
            ys == w + p
            uvs == CeilHalf(w) + p
        IN  /\ func = f /\ yuv_type = t /\ width = w
            /\ RGB_stride = rs /\ Y_stride = ys /\ UV_stride = uvs
            /\ RGB = FillRGB(h * rs) /\ Y = FillY(h * ys)
            /\ U = FillU((h \div 2) * uvs) /\ V = FillV((h \div 2) * uvs)
            /\ RGB_in = RGB /\ Y_in = Y /\ U_in = U /\ V_in = V
            /\ height = (IF k = 0 THEN h ELSE k)
            /\ base = WholeBuffers
            /\ x = 0 /\ y = 0
            /\ rgb_ptr1 = 0 /\ rgb_ptr2 = 0 /\ y_ptr1 = 0 /\ y_ptr2 = 0
            /\ u_ptr = 0 /\ v_ptr = 0
            /\ pc = "outer"
            /\ iters = 0
            /\ reads = {} /\ writes = {}
            /\ other = IF k = 0 THEN NoCall
                       ELSE [NoCall EXCEPT
                                !.height = h - k,
                                !.base = [RGB |-> k * rs, Y |-> k * ys,
                                          U |-> (k \div 2) * uvs, V |-> (k \div 2) * uvs],
                                !.pc = "outer"]

NextPar ==
    \/ rgb24_yuv420_std_row
    \/ rgb24_yuv420_std_block
    \/ rgb24_yuv420_std_rowend
    \/ rgb24_yuv420_std_return
    \/ yuv420_rgb24_std_row
    \/ yuv420_rgb24_std_block
    \/ yuv420_rgb24_std_rowend
    \/ yuv420_rgb24_std_return
    \/ Switch

SpecPar == InitPar /\ [][NextPar]_vars

----------------------------------------------------------------------------
(* rgb24_yuv420_sse and rgb24_yuv420_sseu (inside #ifdef NOTDEFINED): one   *)
(* step converts 32 columns of two rows.  The two functions differ in the  *)
(* load and store instructions only (aligned, streaming / unaligned).      *)

SseForward == {"rgb24_yuv420_sse", "rgb24_yuv420_sseu"}

\* x < (n-31) with both sides uint32_t
BatchCond(i, n) == U32Lt(U32(i), U32Sub(U32(n), U32(31)))

\* _mm_avg_epu8, per byte: the average rounded up
mm_avg_epu8(a, b) == (a + b + 1) \div 2

\* _mm_packus_epi16, per element: int16_t to uint8_t with saturation
mm_packus_epi16(v) == IF v < 0 THEN 0 ELSE IF v > 255 THEN 255 ELSE v

\* UNPACK_RGB24_32_STEP1 / _STEP2 on the six registers taken as 96 bytes:
\* the bytes of the first three registers interleaved with those of the
\* last three (_mm_unpacklo_epi8 / _mm_unpackhi_epi8)
UNPACK_RGB24_32_STEP(v) ==
    [i \in 0..95 |-> IF i % 2 = 0 THEN v[i \div 2] ELSE v[48 + (i \div 2)]]

\* five steps: r1, r2, g1, g2, b1, b2 are the bytes 0..15, 16..31, 32..47,
\* 48..63, 64..79, 80..95 of the result
UNPACK_RGB24_32(v) ==
    UNPACK_RGB24_32_STEP(UNPACK_RGB24_32_STEP(UNPACK_RGB24_32_STEP(
        UNPACK_RGB24_32_STEP(UNPACK_RGB24_32_STEP(v)))))

\* The Y, U, V of one pixel as 16-bit values.  The macro reads
\* param->matrix, param->y_shift and PRECISION, which no file of src/
\* defines; the values are those of the scalar path for that pixel (the
\* vector variants have the numeric contract of the scalar functions).
RGB2YUV_16(param, px) ==
    LET y_tmp == ToUint8(PseudoLuma(param, px))
    IN  [y |-> ScaleLuma(param, y_tmp),
         u |-> PixelChroma(px[3], y_tmp, param.cb_factor),
         v |-> PixelChroma(px[1], y_tmp, param.cr_factor)]

\* row1, row2: the 96 bytes at rgb_ptr1 and rgb_ptr2.  The result holds the
\* 32 bytes stored at y_ptr1 and at y_ptr2 and the 16 bytes stored at u_ptr
\* and at v_ptr.
RGB2YUV_32(param, row1, row2) ==
    LET \* the six registers of half h (columns 16h .. 16h+15), unpacked
        un(h) == UNPACK_RGB24_32([i \in 0..95 |-> IF i < 48 THEN row1[48 * h + i]
                                                  ELSE row2[48 * h + i - 48]])
        \* pixel j of line l (0, 1) of half h
        px(h, l, j) == <<un(h)[16 * l + j], un(h)[32 + 16 * l + j], un(h)[64 + 16 * l + j]>>
        yuv(h, l, j) == RGB2YUV_16(param, px(h, l, j))
        \* vertical subsampling: u1_tmp (h = 0), u2_tmp (h = 1)
        u_tmp(h, j) == mm_avg_epu8(mm_packus_epi16(yuv(h, 0, j).u), mm_packus_epi16(yuv(h, 1, j).u))
        v_tmp(h, j) == mm_avg_epu8(mm_packus_epi16(yuv(h, 0, j).v), mm_packus_epi16(yuv(h, 1, j).v))
        \* horizontal subsampling: the high byte of each 16-bit element (odd
        \* column) averaged with its low byte (even column)
        u_out(k) == mm_avg_epu8(u_tmp(k \div 8, 2 * (k % 8) + 1), u_tmp(k \div 8, 2 * (k % 8)))
        v_out(k) == mm_avg_epu8(v_tmp(k \div 8, 2 * (k % 8) + 1), v_tmp(k \div 8, 2 * (k % 8)))
    IN  [y1 |-> [c \in 0..31 |-> mm_packus_epi16(yuv(c \div 16, 0, c % 16).y)],
         y2 |-> [c \in 0..31 |-> mm_packus_epi16(yuv(c \div 16, 1, c % 16).y)],
         u  |-> [k \in 0..15 |-> u_out(k)],
         v  |-> [k \in 0..15 |-> v_out(k)]]

\* offsets a 32-column step touches in each plane
BatchRgbOffs == (rgb_ptr1 .. rgb_ptr1 + 95) \cup (rgb_ptr2 .. rgb_ptr2 + 95)

BatchYOffs == (y_ptr1 .. y_ptr1 + 31) \cup (y_ptr2 .. y_ptr2 + 31)

BatchUOffs == u_ptr .. u_ptr + 15

BatchVOffs == v_ptr .. v_ptr + 15

\* the body of the inner loop of rgb24_yuv420_sse / rgb24_yuv420_sseu
Batch(f) ==
    /\ pc = "inner" /\ func = f
    /\ BatchCond(x, width)
    /\ iters < IterCap
    /\ InPlane(RGB, BatchRgbOffs) /\ InPlane(Y, BatchYOffs)
    /\ InPlane(U, BatchUOffs) /\ InPlane(V, BatchVOffs)
    /\ LET out == RGB2YUV_32(RGB2YUV[yuv_type],
                             [i \in 0..95 |-> RGB[rgb_ptr1 + i]],
                             [i \in 0..95 |-> RGB[rgb_ptr2 + i]])
       IN  /\ Y' = [o \in DOMAIN Y |->
                       IF o \in y_ptr1 .. y_ptr1 + 31 THEN out.y1[o - y_ptr1]
                       ELSE IF o \in y_ptr2 .. y_ptr2 + 31 THEN out.y2[o - y_ptr2]
                       ELSE Y[o]]
           /\ U' = [o \in DOMAIN U |-> IF o \in BatchUOffs THEN out.u[o - u_ptr] ELSE U[o]]
           /\ V' = [o \in DOMAIN V |-> IF o \in BatchVOffs THEN out.v[o - v_ptr] ELSE V[o]]
    /\ reads' = reads \cup Tag("RGB", BatchRgbOffs)
    /\ writes' = writes \cup Tag("Y", BatchYOffs) \cup Tag("U", BatchUOffs)
                        \cup Tag("V", BatchVOffs)
    /\ rgb_ptr1' = rgb_ptr1 + 96
    /\ rgb_ptr2' = rgb_ptr2 + 96
    /\ y_ptr1' = y_ptr1 + 32
    /\ y_ptr2' = y_ptr2 + 32
    /\ u_ptr' = u_ptr + 16
    /\ v_ptr' = v_ptr + 16
    /\ x' = x + 32
    /\ iters' = iters + 1
    /\ UNCHANGED <<args, other, RGB, y, pc, snapshot>>

\* inner loop condition false: y += 2
BatchRowEnd(f) ==
    /\ pc = "inner" /\ func = f
    /\ ~BatchCond(x, width)
    /\ y' = y + 2
    /\ pc' = "outer"
    /\ UNCHANGED <<args, other, planes, x, ptrs, iters, reads, writes, snapshot>>

rgb24_yuv420_sse_row == RowEnter("rgb24_yuv420_sse")

rgb24_yuv420_sse_batch == Batch("rgb24_yuv420_sse")

rgb24_yuv420_sse_rowend == BatchRowEnd("rgb24_yuv420_sse")

rgb24_yuv420_sse_return == Return("rgb24_yuv420_sse")

rgb24_yuv420_sseu_row == RowEnter("rgb24_yuv420_sseu")

rgb24_yuv420_sseu_batch == Batch("rgb24_yuv420_sseu")

rgb24_yuv420_sseu_rowend == BatchRowEnd("rgb24_yuv420_sseu")

rgb24_yuv420_sseu_return == Return("rgb24_yuv420_sseu")

\* width and height of the image given to the vector functions
BatchWidth == 32

BatchHeight == 2

\* three pixels of one colour and one of another, the colours on the levels
BatchBlocks == {b \in OddOneBlocks : b[2] = b[3] /\ b[3] = b[4]}
                   \cup MixedBlocks \cup {[i \in 1..4 |-> <<v, v, v>>] : v \in Levels}

\* the RGB plane of a BatchWidth x BatchHeight image with tight stride whose
\* 2x2 block k holds the pixels of b, rotated by k places
BatchRGB(b) ==
    [o \in 0..(3 * BatchWidth * BatchHeight - 1) |->
        LET r == o \div (3 * BatchWidth)
            c == (o % (3 * BatchWidth)) \div 3
        IN  b[((2 * (r % 2) + (c % 2) + (c \div 2)) % 4) + 1][(o % 3) + 1]]

InitSse ==
    \E f \in SseForward, t \in 0..2, b \in BatchBlocks :
        Call(f, t, BatchWidth, BatchHeight, 3 * BatchWidth, BatchWidth, BatchWidth \div 2,
             BatchRGB(b),
             FillY(BatchWidth * BatchHeight),
             FillU((BatchWidth \div 2) * (BatchHeight \div 2)),
             FillV((BatchWidth \div 2) * (BatchHeight \div 2)))

NextSse ==
    \/ rgb24_yuv420_sse_row
    \/ rgb24_yuv420_sse_batch
    \/ rgb24_yuv420_sse_rowend
    \/ rgb24_yuv420_sse_return
    \/ rgb24_yuv420_sseu_row
    \/ rgb24_yuv420_sseu_batch
    \/ rgb24_yuv420_sseu_rowend
    \/ rgb24_yuv420_sseu_return

SpecSse == InitSse /\ [][NextSse]_vars

----------------------------------------------------------------------------
(* Properties.  The reference values below are written from the claims, on  *)
(* unbounded integers, and are compared with what the steps above stored.   *)

FwdDone == pc = "done" /\ func = "rgb24_yuv420_std"

InvDone == pc = "done" /\ func = "yuv420_rgb24_std"

\* pixel i (1..4) of the 2x2 block at the origin of the RGB plane given
InPixel(i) ==
    LET o == ((i - 1) \div 2) * RGB_stride + ((i - 1) % 2) * 3
    IN  <<RGB_in[o], RGB_in[o + 1], RGB_in[o + 2]>>

\* offset in the Y plane of the luma sample of pixel i of that block
LumaAt(i) == ((i - 1) \div 2) * Y_stride + ((i - 1) % 2)

IsGrayBlock == \A i \in 1..4 : InPixel(i) = <<RGB_in[0], RGB_in[0], RGB_in[0]>>

\* C1: a 2x2 block of four equal gray pixels (v,v,v) converts, under every
\* standard, to U = 128, V = 128 and four luma samples
\* ((v*y_factor)>>7)+y_offset; under BT601 white gives Y = 235, black
\* Y = 16 and mid-gray Y = ((128*y_factor)>>7)+16.
C1_GrayVectors ==
    (FwdDone /\ IsGrayBlock) =>
        LET v == RGB_in[0]
            p == RGB2YUV[yuv_type]
        IN  /\ U[0] = 128
            /\ V[0] = 128
            /\ \A i \in 1..4 : Y[LumaAt(i)] = ((v * p.y_factor) \div 128) + p.y_offset
            /\ (yuv_type = 1 /\ v = 255) => \A i \in 1..4 : Y[LumaAt(i)] = 235
            /\ (yuv_type = 1 /\ v = 0) => \A i \in 1..4 : Y[LumaAt(i)] = 16
            /\ (yuv_type = 1 /\ v = 128) =>
                   \A i \in 1..4 : Y[LumaAt(i)] = ((128 * p.y_factor) \div 128) + 16

C1_Witness ==
    /\ FwdDone /\ IsGrayBlock /\ yuv_type = 1 /\ RGB_in[0] = 255
    /\ Y[0] = 235 /\ U[0] = 128 /\ V[0] = 128

\* the values of the claims, on unbounded integers, for pixel px
RefLuma(p, px) == (p.r_factor * px[1] + p.g_factor * px[2] + p.b_factor * px[3]) \div 256

RefU(p, px) == (((px[3] - RefLuma(p, px)) * p.cb_factor) \div 256) + 128

RefV(p, px) == (((px[1] - RefLuma(p, px)) * p.cr_factor) \div 256) + 128

RefY(p, px) == ((RefLuma(p, px) * p.y_factor) \div 128) + p.y_offset

RefUSum(p) == RefU(p, InPixel(1)) + RefU(p, InPixel(2)) + RefU(p, InPixel(3)) + RefU(p, InPixel(4))

RefVSum(p) == RefV(p, InPixel(1)) + RefV(p, InPixel(2)) + RefV(p, InPixel(3)) + RefV(p, InPixel(4))

\* C2: in rgb24_yuv420_std every value lies in 0..255 before it is stored:
\* the pseudo-luma, each per-pixel chroma value, the block U and V and the
\* rescaled Y; so no store wraps and the bytes stored are those values.
C2_ForwardInRange ==
    (func = "rgb24_yuv420_std" /\ width = 2 /\ height = 2) =>
        LET p == RGB2YUV[yuv_type]
        IN  /\ \A i \in 1..4 :
                  /\ RefLuma(p, InPixel(i)) \in Byte
                  /\ RefU(p, InPixel(i)) \in Byte
                  /\ RefV(p, InPixel(i)) \in Byte
                  /\ RefY(p, InPixel(i)) \in Byte
            /\ RefUSum(p) \div 4 \in Byte
            /\ RefVSum(p) \div 4 \in Byte
            /\ FwdDone =>
                  /\ \A i \in 1..4 : Y[LumaAt(i)] = RefY(p, InPixel(i))
                  /\ U[0] = RefUSum(p) \div 4
                  /\ V[0] = RefVSum(p) \div 4

\* the largest per-pixel U is reached: a blue block under JPEG
C2_Witness ==
    /\ FwdDone /\ yuv_type = 0
    /\ \A i \in 1..4 : InPixel(i) = <<0, 0, 255>>
    /\ RefU(RGB2YUV[0], InPixel(1)) = 255
    /\ U[0] = 255

Clip(v) == IF v < 0 THEN 0 ELSE IF v > 255 THEN 255 ELSE v

INT8 == (-128)..127

INT16 == (-32768)..32767

\* C3: each RGB byte written by yuv420_rgb24_std is the clip to 0..255 of
\* the value computed on unbounded integers with floor shifts from the
\* pixel's Y and the block's U, V; the int8_t and int16_t intermediates hold
\* their values unchanged.
C3_InverseClipped ==
    (func = "yuv420_rgb24_std" /\ width = 2 /\ height = 2) =>
        LET p == YUV2RGB[yuv_type]
            u == U_in[0] - 128
            v == V_in[0] - 128
            r_off == (p.cr_factor * v) \div 64
            g_off == (p.g_cb_factor * u + p.g_cr_factor * v) \div 128
            b_off == (p.cb_factor * u) \div 64
            yy(i) == (p.y_factor * (Y_in[LumaAt(i)] - p.y_offset)) \div 128
            at(i) == ((i - 1) \div 2) * RGB_stride + ((i - 1) % 2) * 3
        IN  /\ u \in INT8 /\ v \in INT8
            /\ r_off \in INT16 /\ g_off \in INT16 /\ b_off \in INT16
            /\ \A i \in 1..4 :
                  /\ yy(i) \in INT16
                  /\ yy(i) + r_off \in INT16
                  /\ yy(i) - g_off \in INT16
                  /\ yy(i) + b_off \in INT16
            /\ InvDone =>
                  \A i \in 1..4 :
                      /\ RGB[at(i)] = Clip(yy(i) + r_off)
                      /\ RGB[at(i) + 1] = Clip(yy(i) - g_off)
                      /\ RGB[at(i) + 2] = Clip(yy(i) + b_off)

\* both ends of the clip are used: with U = V = 255 the pixel of Y = 255
\* saturates R at 255 and the pixel of Y = 0 saturates G at 0
C3_Witness ==
    /\ InvDone /\ V_in[0] = 255 /\ U_in[0] = 255
    /\ Y_in[0] = 255 /\ Y_in[1] = 0
    /\ RGB[0] = 255 /\ RGB[4] = 0

\* C4: the U (V) sample written is (u1+u2+u3+u4)>>2, floor, each ui computed
\* from its own pixel with its own pseudo-luma.
C4_ChromaBoxFilter ==
    (FwdDone /\ width = 2 /\ height = 2) =>
        /\ U[0] = RefUSum(RGB2YUV[yuv_type]) \div 4
        /\ V[0] = RefVSum(RGB2YUV[yuv_type]) \div 4

\* a block whose four per-pixel U values are not all equal and whose sum is
\* not a multiple of 4
C4_Witness ==
    /\ FwdDone
    /\ RefU(RGB2YUV[yuv_type], InPixel(1)) # RefU(RGB2YUV[yuv_type], InPixel(4))
    /\ RefUSum(RGB2YUV[yuv_type]) % 4 # 0
    /\ U[0] # RefU(RGB2YUV[yuv_type], InPixel(1))
    /\ U[0] = RefUSum(RGB2YUV[yuv_type]) \div 4

\* the bytes the claims name: the even-aligned region of each plane
EvenRows == 0..(2 * (height \div 2) - 1)

EvenCols == 0..(2 * (width \div 2) - 1)

RegionY == {r * Y_stride + c : r \in EvenRows, c \in EvenCols}

RegionUV == {r * UV_stride + c : r \in 0..((height \div 2) - 1), c \in 0..((width \div 2) - 1)}

RegionRGB == {r * RGB_stride + 3 * c + k : r \in EvenRows, c \in EvenCols, k \in 0..2}

Kept(plane, before, region) ==
    /\ DOMAIN plane = DOMAIN before
    /\ \A o \in DOMAIN before : o \notin region => plane[o] = before[o]

\* C5: for width, height >= 1 rgb24_yuv420_std writes exactly the Y, U and V
\* bytes of the even-aligned region; every other byte of the three planes
\* and the whole RGB source keep their values; with width = 1 or height = 1
\* the three planes are untouched.
C5_ForwardFrame ==
    (func = "rgb24_yuv420_std" /\ width >= 1 /\ height >= 1) =>
        LET region == Tag("Y", RegionY) \cup Tag("U", RegionUV) \cup Tag("V", RegionUV)
        IN  /\ RGB = RGB_in
            /\ Kept(Y, Y_in, RegionY)
            /\ Kept(U, U_in, RegionUV)
            /\ Kept(V, V_in, RegionUV)
            /\ writes \subseteq region
            /\ pc = "done" => writes = region
            /\ (width = 1 \/ height = 1) => (Y = Y_in /\ U = U_in /\ V = V_in)

\* width 3, height 2: the first two columns are converted, the third is not
C5_Witness ==
    /\ FwdDone /\ width = 3 /\ height = 2
    /\ writes = Tag("Y", {0, 1, Y_stride, Y_stride + 1}) \cup {<<"U", 0>>, <<"V", 0>>}
    /\ Y[0] # Y_in[0]
    /\ Y[2] = Y_in[2]

\* C6: for width, height >= 1 yuv420_rgb24_std writes exactly the RGB bytes
\* of the even-aligned region; the other RGB bytes and the Y, U and V planes
\* keep their values.
C6_InverseFrame ==
    (func = "yuv420_rgb24_std" /\ width >= 1 /\ height >= 1) =>
        /\ Y = Y_in /\ U = U_in /\ V = V_in
        /\ Kept(RGB, RGB_in, RegionRGB)
        /\ writes \subseteq Tag("RGB", RegionRGB)
        /\ pc = "done" => writes = Tag("RGB", RegionRGB)

\* an odd row, an odd column and stride padding next to four converted blocks
C6_Witness ==
    /\ InvDone /\ width = MaxDim /\ height = MaxDim /\ RGB_stride > 3 * width
    /\ iters = (MaxDim \div 2) * (MaxDim \div 2)
    /\ Cardinality(writes) = 3 * 4 * iters
    /\ RGB # RGB_in

\* C7: in each entry of the forward table r_factor + g_factor + b_factor is
\* 256, and the pseudo-luma of an 8-bit pixel never exceeds 255.
C7_LumaWeights ==
    /\ \A t \in 0..2 : RGB2YUV[t].r_factor + RGB2YUV[t].g_factor + RGB2YUV[t].b_factor = 256
    /\ (func = "rgb24_yuv420_std" /\ width = 2 /\ height = 2) =>
            \A i \in 1..4 : RefLuma(RGB2YUV[yuv_type], InPixel(i)) <= 255

\* a white block under BT.709, whose pseudo-luma is 255
C7_Witness ==
    /\ FwdDone /\ yuv_type = 2
    /\ \A i \in 1..4 : InPixel(i) = <<255, 255, 255>>
    /\ RefLuma(RGB2YUV[2], InPixel(1)) = 255

\* f is floor(v * 2^n + 1/2) and fits 8 bits
RoundsTo(f, v, n) ==
    LET s == RMul(v, <<Pow2(n), 1>>)
    IN  /\ f \in Byte
        /\ (2 * f - 1) * s[2] <= 2 * s[1]
        /\ 2 * s[1] < (2 * f + 1) * s[2]

InExtent(a) ==
    LET o == a[2]
    IN  IF a[1] = "RGB" THEN o \in 0..(height * RGB_stride - 1) /\ o % RGB_stride < 3 * width
        ELSE IF a[1] = "Y" THEN o \in 0..(height * Y_stride - 1) /\ o % Y_stride < width
        ELSE /\ o \in 0..(CeilHalf(height) * UV_stride - 1)
             /\ o % UV_stride < CeilHalf(width)

\* C9: for width, height >= 1 and strides at least the minimum, every byte
\* either function reads or writes lies inside its plane and inside the
\* declared width of its row.
C9_AccessesInExtent ==
    (width >= 1 /\ height >= 1) =>
        /\ pc # "ub"
        /\ \A a \in reads \cup writes : InExtent(a)

\* the largest image, with padded strides, fully converted
C9_Witness ==
    /\ pc = "done" /\ width = MaxDim /\ height = MaxDim
    /\ Y_stride > width /\ UV_stride > CeilHalf(width)
    /\ iters = (MaxDim \div 2) * (MaxDim \div 2)
    /\ reads # {} /\ writes # {}

\* C10: for every width and height, 0 included, each function returns after
\* exactly floor(width/2)*floor(height/2) block iterations: the count never
\* exceeds that number, no iteration leaves the planes, and it is that
\* number at the return.
C10_ExactIterations ==
    /\ iters <= (width \div 2) * (height \div 2)
    /\ pc # "ub"
    /\ pc = "done" => iters = (width \div 2) * (height \div 2)

\* the intermediate values of forward steps 1 and 2 for pixel px, on
\* unbounded integers
WeightedSum(p, px) == p.r_factor * px[1] + p.g_factor * px[2] + p.b_factor * px[3]

ProductU(p, px) == (px[3] - RefLuma(p, px)) * p.cb_factor

ProductV(p, px) == (px[1] - RefLuma(p, px)) * p.cr_factor

\* C13: for every standard and every 8-bit R, G, B the weighted sum
\* r_factor*R + g_factor*G + b_factor*B and the products (B-Y')*cb_factor and
\* (R-Y')*cr_factor all lie within [-32768, 32767].
C13_Int16Suffices ==
    (func = "rgb24_yuv420_std" /\ width = 2 /\ height = 2) =>
        \A i \in 1..4 :
            /\ WeightedSum(RGB2YUV[yuv_type], InPixel(i)) \in INT16
            /\ ProductU(RGB2YUV[yuv_type], InPixel(i)) \in INT16
            /\ ProductV(RGB2YUV[yuv_type], InPixel(i)) \in INT16

\* C13, amended: the two products lie within [-32768, 32767]; the weighted
\* sum lies within [0, 65280] (256*255, reached by white), which 16-bit
\* signed arithmetic cannot hold.
C13_ProductsFitInt16 ==
    (func = "rgb24_yuv420_std" /\ width = 2 /\ height = 2) =>
        \A i \in 1..4 :
            /\ WeightedSum(RGB2YUV[yuv_type], InPixel(i)) \in 0..65280
            /\ ProductU(RGB2YUV[yuv_type], InPixel(i)) \in INT16
            /\ ProductV(RGB2YUV[yuv_type], InPixel(i)) \in INT16

\* a red block under JPEG: the weighted sum 19635 fits, and (R-Y')*cr_factor
\* is 179*183 = 32757, ten below the int16_t maximum
C13_Witness ==
    /\ FwdDone /\ yuv_type = 0
    /\ \A i \in 1..4 : InPixel(i) = <<255, 0, 0>>
    /\ WeightedSum(RGB2YUV[0], InPixel(1)) = 19635
    /\ ProductV(RGB2YUV[0], InPixel(1)) = 32757
    /\ V[0] = 255

\* C14: under JPEG the luma rescale is the identity in both directions for
\* every byte value: ((Y'*y_factor)>>7)+y_offset = Y' and
\* (y_factor*(Y-y_offset))>>7 = Y on 0..255; rgb24_yuv420_std stores the
\* pseudo-luma itself as Y, and a gray 2x2 block (v,v,v) converted forward
\* and then inverse comes back as (v,v,v), every RGB byte being rewritten.
C14_JpegLumaIdentity ==
    (yuv_type = 0 /\ pc = "done") =>
        /\ \A n \in Byte : ((n * RGB2YUV[0].y_factor) \div 128) + RGB2YUV[0].y_offset = n
        /\ \A n \in Byte : (YUV2RGB[0].y_factor * (n - YUV2RGB[0].y_offset)) \div 128 = n
        /\ func = "rgb24_yuv420_std" =>
               \A i \in 1..4 : Y[LumaAt(i)] = RefLuma(RGB2YUV[0], InPixel(i))
        /\ (func = "yuv420_rgb24_std" /\ IsGrayBlock) =>
               /\ writes = Tag("RGB", 0..11)
               /\ \A i \in 1..4 : Y_in[LumaAt(i)] = RGB_in[0]
               /\ RGB = RGB_in

\* the block (200,200,200) after both conversions
C14_Witness ==
    /\ InvDone /\ yuv_type = 0 /\ IsGrayBlock /\ RGB_in[0] = 200
    /\ Y_in = [o \in 0..3 |-> 200] /\ U_in[0] = 128 /\ V_in[0] = 128
    /\ writes = Tag("RGB", 0..11)
    /\ RGB = [o \in 0..11 |-> 200]

\* the image the two calls convert between them (or the one call, alone)
ImageHeight == IF other.pc = "none" THEN height ELSE height + other.height

Split == other.pc # "none"

AllDone == pc = "done" /\ other.pc \in {"none", "done"}

\* the four pixels of block (br, bc) of the RGB plane at the call
BlockPixels(br, bc) ==
    LET o1 == 2 * br * RGB_stride + 6 * bc
        o2 == (2 * br + 1) * RGB_stride + 6 * bc
    IN  <<Pixel(RGB_in, o1), Pixel(RGB_in, o1 + 3), Pixel(RGB_in, o2), Pixel(RGB_in, o2 + 3)>>

\* the Y, U, V bytes of block (br, bc) at the call
BlockLuma(br, bc) ==
    LET o1 == 2 * br * Y_stride + 2 * bc
        o2 == (2 * br + 1) * Y_stride + 2 * bc
    IN  <<Y_in[o1], Y_in[o1 + 1], Y_in[o2], Y_in[o2 + 1]>>

\* index 1..4, in a block, of the pixel at row r, column c
InBlock(r, c) == 2 * (r % 2) + (c % 2) + 1

\* The planes after the conversion of the whole image: every 2x2 block of
\* the image converted from the planes at the call, every other byte kept.
ImageY ==
    [o \in DOMAIN Y_in |->
        LET r == o \div Y_stride
            c == o % Y_stride
        IN  IF r < ImageHeight /\ c < 2 * (width \div 2)
            THEN RGB2YUV_Block(RGB2YUV[yuv_type], BlockPixels(r \div 2, c \div 2)).y[InBlock(r, c)]
            ELSE Y_in[o]]

ImageU ==
    [o \in DOMAIN U_in |->
        LET r == o \div UV_stride
            c == o % UV_stride
        IN  IF r < ImageHeight \div 2 /\ c < width \div 2
            THEN RGB2YUV_Block(RGB2YUV[yuv_type], BlockPixels(r, c)).u
            ELSE U_in[o]]

ImageV ==
    [o \in DOMAIN V_in |->
        LET r == o \div UV_stride
            c == o % UV_stride
        IN  IF r < ImageHeight \div 2 /\ c < width \div 2
            THEN RGB2YUV_Block(RGB2YUV[yuv_type], BlockPixels(r, c)).v
            ELSE V_in[o]]

ImageRGB ==
    [o \in DOMAIN RGB_in |->
        LET r == o \div RGB_stride
            c == (o % RGB_stride) \div 3
            br == r \div 2
            bc == c \div 2
        IN  IF r < ImageHeight /\ c < 2 * (width \div 2)
            THEN YUV2RGB_Block(YUV2RGB[yuv_type], BlockLuma(br, bc),
                               U_in[br * UV_stride + bc],
                               V_in[br * UV_stride + bc])[InBlock(r, c)][((o % RGB_stride) % 3) + 1]
            ELSE RGB_in[o]]

\* C11: an image of even height H converted by two concurrent calls, one on
\* the rows [0,k) and one on the rows [k,H), k even, ends under every
\* interleaving of their block steps with the bytes the single call on the
\* whole image ends with; no step leaves the planes, and no byte read or
\* written by one call is read or written by the other.
C11_SplitCallsEqualWhole ==
    /\ BlockEnabled(func) => BlockInBounds
    /\ Split => (reads \cup writes) \cap (other.reads \cup other.writes) = {}
    /\ AllDone =>
          IF func = "rgb24_yuv420_std"
          THEN RGB = RGB_in /\ Y = ImageY /\ U = ImageU /\ V = ImageV
          ELSE RGB = ImageRGB /\ Y = Y_in /\ U = U_in /\ V = V_in

\* both calls have returned: one converted two rows, the other four, of an
\* image of width MaxDim with padded strides
C11_Witness ==
    /\ Split /\ AllDone /\ func = "rgb24_yuv420_std"
    /\ width = MaxDim /\ Y_stride > width
    /\ {height, other.height} = {2, 4}
    /\ iters + other.iters = 3 * (MaxDim \div 2)
    /\ writes # {} /\ other.writes # {}
    /\ Y = ImageY /\ Y # Y_in

====
